---- MODULE Spec2Model ----
(***************************************************************************)
(* A model of the racing-game prototype: the map generator, loader and     *)
(* world builder of mapgen.py, the fixed-function mesh renderer of         *)
(* video.py, and the Button widget, the menus, the Player and the main     *)
(* loop of racinggame.py.                                                  *)
(*                                                                         *)
(* The specifications share the variables: SpecMap (files of maps),        *)
(* SpecRender (OpenGL call streams), SpecButton and SpecButtonFrames (the  *)
(* hover animation), SpecStartMenu (the start menu called directly),       *)
(* SpecLoop (the main loop) and SpecPlayer (the turning timer).            *)
(***************************************************************************)
EXTENDS Integers, Sequences, FiniteSets, TLC

VARIABLES
    disk,       \* the files that exist: path (sequence of characters) -> JSON tokens
    dirs,       \* the directories that exist
    lastGen,    \* the last generate_enclosed_map_json call: arguments and map_data
    ret,        \* the last mapgen call and what it returned or raised
    glDepth,    \* depth of the OpenGL modelview matrix stack
    glLog,      \* the OpenGL calls issued by the last render call, in order
    frame,      \* the last render call: its arguments, submissions, diagnostics
    btn,        \* a Button object's fields
    mouse,      \* the last Button call: its arguments and result
    buttons,    \* MainMenu.buttons: the five Button objects, in order
    start_menu, \* the StartMenu object's fields
    current_menu, \* main(): the menu shown
    running,    \* main(): the flag of the while loop
    pc,         \* main(): "frame" inside the loop, "done" after it, "exit" on SystemExit
    lastStep,   \* the last menu or loop step: the event, who handled it, the outcome
    player,     \* a Player object's fields
    turn_calls  \* the update_turning calls so far: is_turning and the time read

mapVars == <<disk, dirs, lastGen, ret>>
renderVars == <<glDepth, glLog, frame>>
buttonVars == <<btn, mouse>>
menuVars == <<buttons, start_menu, current_menu, running, pc, lastStep>>
playerVars == <<player, turn_calls>>
vars == <<disk, dirs, lastGen, ret, glDepth, glLog, frame, btn, mouse,
          buttons, start_menu, current_menu, running, pc, lastStep,
          player, turn_calls>>

-----------------------------------------------------------------------------
(* Bounds of the model.                                                    *)

\* widths and heights of generated maps range over -1..MaxDim
MaxDim == 4
\* tile codes range over 0..MaxTile
MaxTile == 1

-----------------------------------------------------------------------------
(* Python values as they appear in a JSON document.                        *)

NoValue == [t |-> "none"]
JNull == [t |-> "null"]
JInt(n) == [t |-> "int", i |-> n]
JStr(s) == [t |-> "str", s |-> s]
JArr(items) == [t |-> "arr", items |-> items]
\* a dict: its members in insertion order, each [key |-> string, val |-> value]
JObj(members) == [t |-> "obj", members |-> members]
Member(key, val) == [key |-> key, val |-> val]

HasKey(d, key) == \E n \in 1..Len(d.members) : d.members[n].key = key

\* dict.get(key, default)
Get(d, key, default) ==
    IF HasKey(d, key)
    THEN d.members[CHOOSE n \in 1..Len(d.members) : d.members[n].key = key].val
    ELSE default

\* d[key] = val: an existing key keeps its place and takes the new value
SetItem(members, key, val) ==
    IF \E n \in 1..Len(members) : members[n].key = key
    THEN [n \in 1..Len(members) |->
            IF members[n].key = key THEN Member(key, val) ELSE members[n]]
    ELSE Append(members, Member(key, val))

-----------------------------------------------------------------------------
(* json.dump and json.load, at the level of JSON tokens.  A token is       *)
(* [k, s]: k is "p" (punctuation), "num", "str" or "lit"; s is its text,   *)
(* a number's text being its characters.                                   *)

Tok(k, s) == [k |-> k, s |-> s]
Punct(c) == Tok("p", <<c>>)
Digits == <<"0", "1", "2", "3", "4", "5", "6", "7", "8", "9">>

RECURSIVE NatToChars(_)
NatToChars(n) ==
    IF n < 10 THEN <<Digits[n + 1]>>
    ELSE NatToChars(n \div 10) \o <<Digits[(n % 10) + 1]>>

\* a writer that drops the sign
IntToCharsUnsigned(n) == IF n < 0 THEN NatToChars(0 - n) ELSE NatToChars(n)

\* the decimal text of an int, as int.__repr__ writes it
IntToChars(n) == IF n < 0 THEN <<"-">> \o NatToChars(0 - n) ELSE NatToChars(n)

DigitVal(c) == (CHOOSE d \in 1..10 : Digits[d] = c) - 1

RECURSIVE CharsToNat(_, _)
CharsToNat(cs, acc) ==
    IF cs = <<>> THEN acc ELSE CharsToNat(Tail(cs), acc * 10 + DigitVal(Head(cs)))

\* the int a JSON number's text denotes
CharsToInt(cs) ==
    IF Head(cs) = "-" THEN 0 - CharsToNat(Tail(cs), 0) ELSE CharsToNat(cs, 0)

RECURSIVE Encode(_)
RECURSIVE EncodeItems(_)
RECURSIVE EncodeMembers(_)

EncodeItems(items) ==
    IF items = <<>> THEN <<>>
    ELSE Encode(Head(items))
         \o (IF Len(items) > 1 THEN <<Punct(",")>> \o EncodeItems(Tail(items)) ELSE <<>>)

EncodeMembers(members) ==
    IF members = <<>> THEN <<>>
    ELSE <<Tok("str", <<Head(members).key>>), Punct(":")>> \o Encode(Head(members).val)
         \o (IF Len(members) > 1
             THEN <<Punct(",")>> \o EncodeMembers(Tail(members)) ELSE <<>>)

\* json.dump(value, f, indent=2): the tokens written (white space is not a token)
Encode(v) ==
    CASE v.t = "int" -> <<Tok("num", IntToChars(v.i))>>
      [] v.t = "str" -> <<Tok("str", <<v.s>>)>>
      [] v.t = "null" -> <<Tok("lit", <<"null">>)>>
      [] v.t = "arr" -> <<Punct("[")>> \o EncodeItems(v.items) \o <<Punct("]")>>
      [] v.t = "obj" -> <<Punct("{")>> \o EncodeMembers(v.members) \o <<Punct("}")>>

ParseFail == [ok |-> FALSE, val |-> NoValue, next |-> 0]
Parsed(val, next) == [ok |-> TRUE, val |-> val, next |-> next]
IsPunct(toks, i, c) == i <= Len(toks) /\ toks[i] = Punct(c)

RECURSIVE ParseValue(_, _)
RECURSIVE ParseItems(_, _, _)
RECURSIVE ParseMembers(_, _, _)

\* the elements of an array from token i on, up to and including its "]"
ParseItems(toks, i, acc) ==
    LET r == ParseValue(toks, i) IN
    IF ~r.ok THEN ParseFail
    ELSE IF IsPunct(toks, r.next, ",")
         THEN ParseItems(toks, r.next + 1, Append(acc, r.val))
    ELSE IF IsPunct(toks, r.next, "]")
         THEN Parsed(JArr(Append(acc, r.val)), r.next + 1)
    ELSE ParseFail

\* the members of an object from token i on, up to and including its "}"
ParseMembers(toks, i, acc) ==
    IF ~(i + 1 <= Len(toks) /\ toks[i].k = "str" /\ toks[i + 1] = Punct(":"))
    THEN ParseFail
    ELSE LET r == ParseValue(toks, i + 2)
             key == toks[i].s[1]
         IN IF ~r.ok THEN ParseFail
            ELSE IF IsPunct(toks, r.next, ",")
                 THEN ParseMembers(toks, r.next + 1, SetItem(acc, key, r.val))
            ELSE IF IsPunct(toks, r.next, "}")
                 THEN Parsed(JObj(SetItem(acc, key, r.val)), r.next + 1)
            ELSE ParseFail

\* the JSON value that starts at token i
ParseValue(toks, i) ==
    IF i > Len(toks) THEN ParseFail
    ELSE LET tk == toks[i] IN
         CASE tk.k = "num" -> Parsed(JInt(CharsToInt(tk.s)), i + 1)
           [] tk.k = "str" -> Parsed(JStr(tk.s[1]), i + 1)
           [] tk.k = "lit" -> IF tk.s = <<"null">> THEN Parsed(JNull, i + 1) ELSE ParseFail
           [] tk = Punct("[") ->
                IF IsPunct(toks, i + 1, "]") THEN Parsed(JArr(<<>>), i + 2)
                ELSE ParseItems(toks, i + 1, <<>>)
           [] tk = Punct("{") ->
                IF IsPunct(toks, i + 1, "}") THEN Parsed(JObj(<<>>), i + 2)
                ELSE ParseMembers(toks, i + 1, <<>>)
           [] OTHER -> ParseFail

\* json.load(f): the value of the whole document, or a JSONDecodeError
JsonLoad(toks) ==
    LET r == ParseValue(toks, 1) IN
    IF r.ok /\ r.next = Len(toks) + 1 THEN [ok |-> TRUE, val |-> r.val]
    ELSE [ok |-> FALSE, val |-> NoValue]

-----------------------------------------------------------------------------
(* mapgen.py: the enclosed-map generator.                                  *)

\* a generator whose right and bottom walls are one cell off
CellOffByOne(x, y, width, height, wall_tile, empty_tile) ==
    IF x = 0 \/ x = width \/ y = 0 \/ y = height THEN wall_tile ELSE empty_tile

\* the cell at column x, row y (both from 0) of the enclosed grid
Cell(x, y, width, height, wall_tile, empty_tile) ==
    IF x = 0 \/ x = width - 1 \/ y = 0 \/ y = height - 1 THEN wall_tile ELSE empty_tile

\* the 2D grid: range(height) rows of range(width) cells
Grid(width, height, wall_tile, empty_tile) ==
    [r \in 1..height |->
        [c \in 1..width |-> Cell(c - 1, r - 1, width, height, wall_tile, empty_tile)]]

\* a start point rounded up instead of down
StartRoundedUp(width, height) == [x |-> (width + 1) \div 2, y |-> (height + 1) \div 2]

\* the start point: floor division of the dimensions
Start(width, height) == [x |-> width \div 2, y |-> height \div 2]

GridValue(grid) ==
    JArr([r \in 1..Len(grid) |-> JArr([c \in 1..Len(grid[r]) |-> JInt(grid[r][c])])])

\* the map_data dict that the generator builds and dumps
MapData(width, height, wall_tile, empty_tile) ==
    JObj(<<Member("name", JStr("Enclosed Generated Map")),
           Member("width", JInt(width)),
           Member("height", JInt(height)),
           Member("tiles", GridValue(Grid(width, height, wall_tile, empty_tile))),
           Member("start", JObj(<<Member("x", JInt(Start(width, height).x)),
                                  Member("y", JInt(Start(width, height).y))>>))>>)

\* os.path.dirname: what precedes the last "/" ("" when there is none)
Dirname(path) ==
    LET slashes == {n \in 1..Len(path) : path[n] = "/"} IN
    IF slashes = {} THEN <<>>
    ELSE SubSeq(path, 1, (CHOOSE n \in slashes : \A m \in slashes : m <= n) - 1)

\* open(path, "w") and the dump: the file holds the new content whole
WriteFile(d, path, content) ==
    [p \in DOMAIN d \cup {path} |-> IF p = path THEN content ELSE d[p]]

-----------------------------------------------------------------------------
(* mapgen.py: the map loader and the world builder.                        *)

PyNone == [t |-> "none"]
PyStr(chars) == [t |-> "str", s |-> chars]
DotJson == <<".", "j", "s", "o", "n">>

\* str.endswith
EndsWith(chars, suffix) ==
    /\ Len(chars) >= Len(suffix)
    /\ SubSeq(chars, Len(chars) - Len(suffix) + 1, Len(chars)) = suffix

\* a path test that forgets the dot of the extension
InvalidPathNoDot(file_path) ==
    \/ file_path.t = "none"
    \/ file_path.s = <<>>
    \/ ~EndsWith(file_path.s, <<"j", "s", "o", "n">>)

\* the path test of load_map: "not file_path or not file_path.endswith('.json')"
InvalidPath(file_path) ==
    \/ file_path.t = "none"
    \/ file_path.s = <<>>
    \/ ~EndsWith(file_path.s, DotJson)

\* load_map(file_path) on disk d: what it returns or raises, and whether it
\* got as far as calling open()
LoadMap(file_path, d) ==
    IF InvalidPath(file_path)
    THEN [status |-> "ValueError", openCalled |-> FALSE, data |-> NoValue]
    ELSE IF file_path.s \notin DOMAIN d
    THEN [status |-> "FileNotFoundError", openCalled |-> TRUE, data |-> NoValue]
    ELSE LET r == JsonLoad(d[file_path.s]) IN
         IF r.ok THEN [status |-> "ok", openCalled |-> TRUE, data |-> r.val]
         ELSE [status |-> "JSONDecodeError", openCalled |-> TRUE, data |-> NoValue]

EmptyList == JArr(<<>>)

NoWorld == [track |-> NoValue, checkpoints |-> NoValue, obstacles |-> NoValue]

\* map_data.get: only a dict has the method; a list, None, a number or a str
\* raises AttributeError
HasGetMethod(map_data) == map_data.t = "obj"

\* a world builder whose obstacles have no default
GenerateWorldNoDefault(map_data) ==
    IF ~HasGetMethod(map_data) THEN [status |-> "AttributeError", world |-> NoWorld]
    ELSE [status |-> "ok",
          world |-> [track |-> Get(map_data, "track", EmptyList),
                     checkpoints |-> Get(map_data, "checkpoints", EmptyList),
                     obstacles |-> Get(map_data, "obstacles", JNull)]]

\* generate_world(map_data): the world it returns, or the AttributeError of
\* the first map_data.get
GenerateWorld(map_data) ==
    IF ~HasGetMethod(map_data) THEN [status |-> "AttributeError", world |-> NoWorld]
    ELSE [status |-> "ok",
          world |-> [track |-> Get(map_data, "track", EmptyList),
                     checkpoints |-> Get(map_data, "checkpoints", EmptyList),
                     obstacles |-> Get(map_data, "obstacles", EmptyList)]]

-----------------------------------------------------------------------------
(* The map files and the calls of SpecMap.                                 *)

DefaultOutPath ==
    <<"l", "e", "v", "e", "l", "s", "/", "e", "n", "c", "l", "o", "s", "e", "d", "_",
      "g", "e", "n", "e", "r", "a", "t", "e", "d", ".", "j", "s", "o", "n">>
TxtOutPath == <<"l", "e", "v", "e", "l", "s", "/", "g", ".", "t", "x", "t">>
BareOutPath == <<"g", ".", "j", "s", "o", "n">>
TrackPath ==
    <<"l", "e", "v", "e", "l", "s", "/", "t", "r", "a", "c", "k", ".", "j", "s", "o", "n">>
RaggedPath ==
    <<"l", "e", "v", "e", "l", "s", "/", "r", "a", "g", "g", "e", "d", ".", "j", "s", "o", "n">>
ListPath ==
    <<"l", "e", "v", "e", "l", "s", "/", "l", "i", "s", "t", ".", "j", "s", "o", "n">>
BrokenPath ==
    <<"l", "e", "v", "e", "l", "s", "/", "b", "r", "o", "k", "e", "n", ".", "j", "s", "o", "n">>
UpperPath == <<"l", "e", "v", "e", "l", "s", "/", "g", ".", "J", "S", "O", "N">>
MissingPath ==
    <<"l", "e", "v", "e", "l", "s", "/", "m", "i", "s", "s", "i", "n", "g", ".", "j", "s", "o", "n">>
LevelsDir == <<"l", "e", "v", "e", "l", "s">>

\* out_path arguments of the generator
OutPaths == {DefaultOutPath, TxtOutPath, BareOutPath}

\* file_path arguments of the loader
LoadPaths ==
    {PyNone, PyStr(<<>>)}
    \cup {PyStr(p) : p \in OutPaths \cup {TrackPath, RaggedPath, ListPath, BrokenPath, UpperPath,
                                          MissingPath, DotJson, <<"j", "s", "o", "n">>}}

\* width and height arguments, tile codes
Dims == (0 - 1)..MaxDim
TileCodes == 0..MaxTile

\* the generator's arguments <<width, height, wall_tile, empty_tile, out_path>>:
\* every small map at every path, the default call, and the 21 x 15 map
GenerateArgs ==
    {<<w, h, wall, empty, path>> :
        w \in Dims, h \in Dims, wall \in TileCodes, empty \in TileCodes, path \in OutPaths}
    \cup {<<20, 15, 1, 0, DefaultOutPath>>, <<21, 15, 1, 0, DefaultOutPath>>}

Vec(x, y, z) == JArr(<<JInt(x), JInt(y), JInt(z)>>)
SampleTrack ==
    JArr(<<JObj(<<Member("type", JStr("straight")), Member("position", Vec(0, 0, 0))>>),
           JObj(<<Member("type", JStr("curve")), Member("position", Vec(0, 0, 10)),
                  Member("rotation", Vec(0, 90, 0))>>)>>)
SampleCheckpoints ==
    JArr(<<JObj(<<Member("x", JInt(0)), Member("y", JInt(5))>>),
           JObj(<<Member("x", JInt(0 - 3)), Member("y", JInt(12))>>)>>)
SampleObstacles ==
    JArr(<<JObj(<<Member("position", JArr(<<JInt(2), JInt(2)>>)), Member("radius", JInt(1))>>)>>)
SampleMembers ==
    <<Member("name", JStr("Sample")), Member("track", SampleTrack),
      Member("checkpoints", SampleCheckpoints), Member("obstacles", SampleObstacles)>>
WorldKeys == {"track", "checkpoints", "obstacles"}

\* the payloads with any of the keys present, and one whose track is null
SamplePayloads ==
    {JObj(SelectSeq(SampleMembers, LAMBDA m : m.key \in keys)) :
        keys \in SUBSET {"name", "track", "checkpoints", "obstacles"}}
    \cup {JObj(<<Member("track", JNull), Member("obstacles", SampleObstacles)>>)}

\* a tile map whose rows do not match its width and height, and has no start
RaggedMap ==
    JObj(<<Member("width", JInt(0 - 2)), Member("height", JInt(2)),
           Member("tiles", JArr(<<JArr(<<JInt(1)>>), JArr(<<JInt(1), JInt(0), JInt(1)>>),
                                  JArr(<<>>)>>))>>)

\* the level files that exist before any call: a track, a ragged tile map, a
\* document that is a list, a truncated document, a map with a capital suffix
InitialDisk ==
    LET track == Encode(JObj(SubSeq(SampleMembers, 1, 3)))
        full == Encode(MapData(3, 3, 1, 0))
    IN  [p \in {TrackPath, RaggedPath, ListPath, BrokenPath, UpperPath} |->
            CASE p = TrackPath -> track
              [] p = RaggedPath -> Encode(RaggedMap)
              [] p = ListPath -> Encode(JArr(<<JNull>>))
              [] p = BrokenPath -> SubSeq(full, 1, Len(full) - 1)
              [] p = UpperPath -> full]

NoGen ==
    [called |-> FALSE, width |-> 0, height |-> 0, wall_tile |-> 0, empty_tile |-> 0,
     out_path |-> <<>>, map_data |-> NoValue, wrote |-> FALSE]
NoCall ==
    [op |-> "none", path |-> PyNone, status |-> "none", openCalled |-> FALSE,
     data |-> NoValue, world |-> NoWorld]

InitMap ==
    /\ disk = InitialDisk
    /\ dirs = {LevelsDir}
    /\ lastGen = NoGen
    /\ ret = NoCall

\* What a call returns depends on its arguments and the disk alone, and ret keeps
\* only the last call: the model takes each call from the state that no call or
\* the generator left, and the world builder also from a successful load.
AtRest == ret.op \in {"none", "generate"}

\* generate_enclosed_map_json(width, height, wall_tile, empty_tile, out_path).
\* A run of the model generates once: a later call with the same out_path would
\* overwrite the file whole and lead to the state its first call leads to.
GenerateEnclosedMapJson(width, height, wall_tile, empty_tile, out_path) ==
    LET map_data == MapData(width, height, wall_tile, empty_tile)
        dir == Dirname(out_path)
        call == [called |-> TRUE, width |-> width, height |-> height,
                 wall_tile |-> wall_tile, empty_tile |-> empty_tile,
                 out_path |-> out_path, map_data |-> map_data, wrote |-> dir # <<>>]
    IN  /\ ~lastGen.called /\ ret.op = "none"
        /\ lastGen' = call
        /\ IF dir = <<>>
           THEN \* os.makedirs("") raises FileNotFoundError: nothing is written
                /\ UNCHANGED <<disk, dirs>>
                /\ ret' = [NoCall EXCEPT !.op = "generate", !.path = PyStr(out_path),
                                         !.status = "FileNotFoundError"]
           ELSE /\ dirs' = dirs \cup {dir}
                /\ disk' = WriteFile(disk, out_path, Encode(map_data))
                /\ ret' = [NoCall EXCEPT !.op = "generate", !.path = PyStr(out_path),
                                         !.status = "ok"]
        /\ UNCHANGED <<renderVars, buttonVars, menuVars, playerVars>>

\* load_map(file_path)
LoadMapCall(file_path) ==
    LET r == LoadMap(file_path, disk) IN
    /\ AtRest
    /\ ret' = [op |-> "load", path |-> file_path, status |-> r.status,
               openCalled |-> r.openCalled, data |-> r.data, world |-> NoWorld]
    /\ UNCHANGED <<disk, dirs, lastGen, renderVars, buttonVars, menuVars, playerVars>>

\* generate_world(map_data), on the payload just loaded or on a sample payload
GenerateWorldCall(map_data) ==
    LET r == GenerateWorld(map_data) IN
    /\ AtRest \/ ret.op = "load"
    /\ ret' = [op |-> "world", path |-> PyNone, status |-> r.status, openCalled |-> FALSE,
               data |-> map_data, world |-> r.world]
    /\ UNCHANGED <<disk, dirs, lastGen, renderVars, buttonVars, menuVars, playerVars>>

\* the payload a successful load just returned, whatever json.load made of the
\* document
LoadedPayloads ==
    IF ret.op = "load" /\ ret.status = "ok" THEN {ret.data} ELSE {}

NextMap ==
    \/ \E a \in GenerateArgs : GenerateEnclosedMapJson(a[1], a[2], a[3], a[4], a[5])
    \/ \E file_path \in LoadPaths : LoadMapCall(file_path)
    \/ \E map_data \in (IF AtRest THEN SamplePayloads ELSE LoadedPayloads) :
          GenerateWorldCall(map_data)

-----------------------------------------------------------------------------
(* video.py: Renderer.render_custom_mesh, as the OpenGL calls it issues.   *)

\* segments per track range over 0..MaxSegs
MaxSegs == 3
\* the matrix stack holds 0..MaxStack saved matrices when a render call starts
MaxStack == 1

GL_TRIANGLES == 4
GlCall(op, args) == [op |-> op, args |-> args]

\* seq[index] of Python: a negative index counts from the end
PyIndex(seq, index) == IF index >= 0 THEN seq[index + 1] ELSE seq[Len(seq) + index + 1]

RECURSIVE FaceVertices(_, _)
\* the inner loop: one glVertex3fv per index of the face, in order
FaceVertices(vertices, face) ==
    IF face = <<>> THEN <<>>
    ELSE <<GlCall("glVertex3fv", PyIndex(vertices, Head(face)))>>
         \o FaceVertices(vertices, Tail(face))

RECURSIVE AllFaces(_, _)
\* the outer loop over faces
AllFaces(vertices, faces) ==
    IF faces = <<>> THEN <<>>
    ELSE FaceVertices(vertices, Head(faces)) \o AllFaces(vertices, Tail(faces))

\* a renderer that rotates about Z, then Y, then X
RenderCustomMeshZYX(vertices, faces, position, rotation, scale) ==
    <<GlCall("glPushMatrix", <<>>),
      GlCall("glTranslatef", position),
      GlCall("glRotatef", <<rotation[3], 0, 0, 1>>),
      GlCall("glRotatef", <<rotation[2], 0, 1, 0>>),
      GlCall("glRotatef", <<rotation[1], 1, 0, 0>>),
      GlCall("glScalef", scale),
      GlCall("glBegin", <<GL_TRIANGLES>>)>>
    \o AllFaces(vertices, faces)
    \o <<GlCall("glEnd", <<>>), GlCall("glPopMatrix", <<>>)>>

\* render_custom_mesh(vertices, faces, position, rotation, scale): its calls
RenderCustomMesh(vertices, faces, position, rotation, scale) ==
    <<GlCall("glPushMatrix", <<>>),
      GlCall("glTranslatef", position),
      GlCall("glRotatef", <<rotation[1], 1, 0, 0>>),
      GlCall("glRotatef", <<rotation[2], 0, 1, 0>>),
      GlCall("glRotatef", <<rotation[3], 0, 0, 1>>),
      GlCall("glScalef", scale),
      GlCall("glBegin", <<GL_TRIANGLES>>)>>
    \o AllFaces(vertices, faces)
    \o <<GlCall("glEnd", <<>>), GlCall("glPopMatrix", <<>>)>>

RECURSIVE StackDepth(_, _)
\* the matrix stack depth after the calls: glPushMatrix saves, glPopMatrix restores
StackDepth(depth, calls) ==
    IF calls = <<>> THEN depth
    ELSE StackDepth(CASE Head(calls).op = "glPushMatrix" -> depth + 1
                      [] Head(calls).op = "glPopMatrix" -> depth - 1
                      [] OTHER -> depth,
                    Tail(calls))

-----------------------------------------------------------------------------
(* The track render pipeline: each segment of world.track is resolved      *)
(* against the part library and drawn with render_custom_mesh.             *)

IntsOf(v) == [n \in 1..Len(v.items) |-> v.items[n].i]

\* partType = s.type or "straight"
PartType(segment) ==
    LET type == Get(segment, "type", JNull) IN
    IF type.t = "str" /\ type.s # "" THEN type.s ELSE "straight"

SegmentPosition(segment) == IntsOf(Get(segment, "position", Vec(0, 0, 0)))
SegmentRotation(segment) == IntsOf(Get(segment, "rotation", Vec(0, 0, 0)))
SegmentScale(segment) == IntsOf(Get(segment, "scale", Vec(1, 1, 1)))

Submission(n, segment, geometry) ==
    [segment |-> n, vertices |-> geometry.vertices, faces |-> geometry.faces,
     position |-> SegmentPosition(segment), rotation |-> SegmentRotation(segment),
     scale |-> SegmentScale(segment)]
Diagnostic(n, type) == [segment |-> n, kind |-> "unknown-part-type", type |-> type]

RECURSIVE RenderTrackFrom(_, _, _, _)
\* segments n.. of the track, given what segments 1..n-1 produced
RenderTrackFrom(track, part_library, n, out) ==
    IF n > Len(track) THEN out
    ELSE LET segment == track[n]
             type == PartType(segment)
         IN  IF type \in DOMAIN part_library
             THEN LET sub == Submission(n, segment, part_library[type]) IN
                  RenderTrackFrom(track, part_library, n + 1,
                      [out EXCEPT !.submits = Append(@, sub),
                                  !.calls = @ \o RenderCustomMesh(sub.vertices, sub.faces,
                                                    sub.position, sub.rotation, sub.scale)])
             ELSE RenderTrackFrom(track, part_library, n + 1,
                      [out EXCEPT !.diagnostics = Append(@, Diagnostic(n, type))])

\* a pipeline that gives up the frame at the first unknown part type
RenderTrackAborting(track, part_library) ==
    LET unknown == {n \in 1..Len(track) : PartType(track[n]) \notin DOMAIN part_library}
        stop == IF unknown = {} THEN Len(track)
                ELSE CHOOSE n \in unknown : \A m \in unknown : n <= m
    IN  RenderTrackFrom(SubSeq(track, 1, stop), part_library, 1,
                        [submits |-> <<>>, diagnostics |-> <<>>, calls |-> <<>>])

\* render(renderer, world, part_library)
RenderTrack(track, part_library) ==
    RenderTrackFrom(track, part_library, 1,
                    [submits |-> <<>>, diagnostics |-> <<>>, calls |-> <<>>])

-----------------------------------------------------------------------------
(* The geometry, tracks and calls of SpecRender.                           *)

StraightPart ==
    [vertices |-> <<<<0, 0, 0>>, <<1, 0, 0>>, <<0, 1, 0>>>>, faces |-> <<<<0, 1, 2>>>>]
CurvePart ==
    [vertices |-> <<<<0, 0, 0>>, <<2, 0, 0>>, <<2, 0, 2>>, <<0, 0, 3>>>>,
     faces |-> <<<<0, 1, 2>>, <<2, 0 - 1, 0>>>>]
EmptyPart == [vertices |-> <<>>, faces |-> <<>>]

\* part libraries: a full one, one without "curve", and the empty one
Libraries ==
    {[name \in {"straight", "curve"} |-> IF name = "straight" THEN StraightPart ELSE CurvePart],
     [name \in {"straight"} |-> StraightPart],
     [name \in {} |-> EmptyPart]}

Segments ==
    {JObj(<<Member("position", Vec(0, 0, 0))>>),
     JObj(<<Member("type", JStr("straight")), Member("position", Vec(1, 0, 7)),
            Member("scale", Vec(2, 3, 4))>>),
     JObj(<<Member("type", JStr("curve")), Member("position", Vec(5, 0, 0 - 3)),
            Member("rotation", Vec(10, 20, 30))>>),
     JObj(<<Member("type", JStr("loop")), Member("position", Vec(0, 9, 0))>>)}

Tracks == UNION {[1..n -> Segments] : n \in 0..MaxSegs}

NoFrame ==
    [op |-> "none", depthBefore |-> 0, track |-> <<>>, parts |-> {},
     mesh |-> EmptyPart, position |-> <<>>, rotation |-> <<>>, scale |-> <<>>,
     submits |-> <<>>, diagnostics |-> <<>>]

InitRender ==
    /\ glDepth \in 0..MaxStack
    /\ glLog = <<>>
    /\ frame = NoFrame

\* Renderer.clear_screen(): a new frame begins
ClearScreenCall ==
    /\ frame.op \in {"mesh", "track"}
    /\ glLog' = <<GlCall("glClear", <<>>)>>
    /\ frame' = [NoFrame EXCEPT !.op = "clear", !.depthBefore = glDepth]
    /\ UNCHANGED <<glDepth, mapVars, buttonVars, menuVars, playerVars>>

\* one call of Renderer.render_custom_mesh (the model renders once per frame)
RenderCustomMeshCall(mesh, position, rotation, scale) ==
    LET calls == RenderCustomMesh(mesh.vertices, mesh.faces, position, rotation, scale) IN
    /\ frame.op \in {"none", "clear"}
    /\ glLog' = calls
    /\ glDepth' = StackDepth(glDepth, calls)
    /\ frame' = [NoFrame EXCEPT !.op = "mesh", !.depthBefore = glDepth, !.mesh = mesh,
                                !.position = position, !.rotation = rotation,
                                !.scale = scale]
    /\ UNCHANGED <<mapVars, buttonVars, menuVars, playerVars>>

\* one frame's rendering of a world's track
RenderTrackCall(track, part_library) ==
    LET out == RenderTrack(track, part_library) IN
    /\ frame.op \in {"none", "clear"}
    /\ glLog' = out.calls
    /\ glDepth' = StackDepth(glDepth, out.calls)
    /\ frame' = [NoFrame EXCEPT !.op = "track", !.depthBefore = glDepth, !.track = track,
                                !.parts = DOMAIN part_library,
                                !.submits = out.submits, !.diagnostics = out.diagnostics]
    /\ UNCHANGED <<mapVars, buttonVars, menuVars, playerVars>>

NextRender ==
    \/ ClearScreenCall
    \/ \E mesh \in {StraightPart, CurvePart, EmptyPart},
          position \in {<<0, 0, 0>>, <<5, 0, 0 - 3>>},
          rotation \in {<<0, 0, 0>>, <<10, 20, 30>>},
          scale \in {<<1, 1, 1>>, <<2, 3, 4>>} :
          RenderCustomMeshCall(mesh, position, rotation, scale)
    \/ \E track \in Tracks, part_library \in Libraries : RenderTrackCall(track, part_library)

-----------------------------------------------------------------------------
(* racinggame.py: the Button widget.                                       *)

base_alpha == 128
hover_alpha == 255
\* growth = 1.08 and animation_speed = 0.22, in hundredths
growth_pct == 108
animation_speed_pct == 22

\* a conversion that rounds down instead of toward zero
IntOfHundredthsFloor(num) == num \div 100

\* int(x) of a float x = num / 100: truncation toward zero
IntOfHundredths(num) == IF num >= 0 THEN num \div 100 ELSE 0 - ((0 - num) \div 100)

\* pygame.Rect(pos, size).collidepoint(point): left and top edges are inside,
\* right and bottom edges are not
CollidePoint(pos, size, point) ==
    /\ pos[1] <= point[1] /\ point[1] < pos[1] + size[1]
    /\ pos[2] <= point[2] /\ point[2] < pos[2] + size[2]

\* Button.__init__(text, pos, size, ...)
NewButton(pos, size) ==
    [pos |-> pos, size |-> size, is_hovered |-> FALSE,
     current_alpha |-> base_alpha, current_size |-> size,
     target_size |-> size, target_alpha |-> base_alpha]

\* a hover test against the animated size
HoveredAnimated(b, mouse_pos) == CollidePoint(b.pos, b.current_size, mouse_pos)

\* the hover test of update
Hovered(b, mouse_pos) == CollidePoint(b.pos, b.size, mouse_pos)

\* the targets update selects for a hover state
TargetSize(b, is_hovered) ==
    IF is_hovered
    THEN <<IntOfHundredths(b.size[1] * growth_pct), IntOfHundredths(b.size[2] * growth_pct)>>
    ELSE b.size
TargetAlpha(is_hovered) == IF is_hovered THEN hover_alpha ELSE base_alpha

\* a step with a speed above 1, which carries the channel past its target
AnimateTooFast(current, target) ==
    current + IntOfHundredths((target - current) * (100 + animation_speed_pct))

\* one animation step of a channel: current += int((target - current) * animation_speed)
Animate(current, target) ==
    current + IntOfHundredths((target - current) * animation_speed_pct)

\* Button.update(mouse_pos): the button after the call
Update(b, mouse_pos) ==
    LET is_hovered == Hovered(b, mouse_pos)
        target_size == TargetSize(b, is_hovered)
        target_alpha == TargetAlpha(is_hovered)
    IN  [b EXCEPT !.is_hovered = is_hovered,
                  !.target_size = target_size,
                  !.target_alpha = target_alpha,
                  !.current_size = <<Animate(b.current_size[1], target_size[1]),
                                     Animate(b.current_size[2], target_size[2])>>,
                  !.current_alpha = Animate(b.current_alpha, target_alpha)]

\* Button.is_clicked(mouse_pos, mouse_pressed)
IsClicked(b, mouse_pos, mouse_pressed) ==
    CollidePoint(b.pos, b.size, mouse_pos) /\ mouse_pressed[1]

-----------------------------------------------------------------------------
(* The buttons and calls of SpecButton.                                    *)

\* the main menu's first button, and a square one
ButtonShapes ==
    {[pos |-> <<60, 60>>, size |-> <<200, 50>>],
     [pos |-> <<0, 0>>, size |-> <<100, 100>>]}

\* pointer positions on and just off each edge of the button's rectangle:
\* along its top row and down its left column
MousePositions(b) ==
    {<<x, b.pos[2]>> :
        x \in {b.pos[1] - 1, b.pos[1], b.pos[1] + b.size[1] - 1, b.pos[1] + b.size[1]}}
    \cup {<<b.pos[1], y>> :
        y \in {b.pos[2] - 1, b.pos[2], b.pos[2] + b.size[2] - 1, b.pos[2] + b.size[2]}}

NoButtonCall ==
    [op |-> "none", mouse_pos |-> <<0, 0>>, mouse_pressed |-> <<FALSE, FALSE, FALSE>>,
     result |-> FALSE]

InitButton ==
    /\ \E shape \in ButtonShapes : btn = NewButton(shape.pos, shape.size)
    /\ mouse = [NoButtonCall EXCEPT !.op = "init"] @@ [before |-> btn]

UpdateCall(mouse_pos) ==
    /\ btn' = Update(btn, mouse_pos)
    /\ mouse' = [op |-> "update", mouse_pos |-> mouse_pos,
                 mouse_pressed |-> <<FALSE, FALSE, FALSE>>, result |-> FALSE,
                 before |-> btn]
    /\ UNCHANGED <<mapVars, renderVars, menuVars, playerVars>>

IsClickedCall(mouse_pos, left_pressed) ==
    /\ mouse' = [op |-> "is_clicked", mouse_pos |-> mouse_pos,
                 mouse_pressed |-> <<left_pressed, FALSE, FALSE>>,
                 result |-> IsClicked(btn, mouse_pos, <<left_pressed, FALSE, FALSE>>),
                 before |-> btn]
    /\ UNCHANGED <<btn, mapVars, renderVars, menuVars, playerVars>>

NextButton ==
    \/ \E mouse_pos \in MousePositions(btn) : UpdateCall(mouse_pos)
    \/ \E mouse_pos \in MousePositions(btn), left_pressed \in BOOLEAN :
          IsClickedCall(mouse_pos, left_pressed)

-----------------------------------------------------------------------------
(* racinggame.py: file names as os.listdir, str.lower and sorted see them. *)

\* the code points of the characters that the file names here are made of
CodePoints ==
    ("." :> 46) @@ ("B" :> 66) @@ ("G" :> 71) @@ ("J" :> 74) @@ ("L" :> 76)
    @@ ("N" :> 78) @@ ("O" :> 79) @@ ("S" :> 83) @@ ("Z" :> 90) @@ ("a" :> 97)
    @@ ("b" :> 98) @@ ("g" :> 103) @@ ("j" :> 106) @@ ("l" :> 108) @@ ("n" :> 110)
    @@ ("o" :> 111) @@ ("p" :> 112) @@ ("q" :> 113) @@ ("s" :> 115) @@ ("t" :> 116)
    @@ ("x" :> 120) @@ ("z" :> 122)
Ord(c) == CodePoints[c]

\* str.lower of each character: a capital letter (code points 65 to 90) is 32
\* code points below its small letter
LowerOf ==
    [c \in DOMAIN CodePoints |->
        IF CodePoints[c] >= 65 /\ CodePoints[c] <= 90
        THEN CHOOSE d \in DOMAIN CodePoints : CodePoints[d] = CodePoints[c] + 32
        ELSE c]
Lower(c) == LowerOf[c]
LowerStr(chars) == [n \in 1..Len(chars) |-> Lower(chars[n])]

RECURSIVE StrLess(_, _)
\* a < b of two str values: the first differing code point decides, a proper
\* prefix is less
StrLess(a, b) ==
    IF b = <<>> THEN FALSE
    ELSE IF a = <<>> THEN TRUE
    ELSE IF Head(a) = Head(b) THEN StrLess(Tail(a), Tail(b))
    ELSE Ord(Head(a)) < Ord(Head(b))

RECURSIVE Sorted(_)
\* sorted(names) of distinct names
Sorted(names) ==
    IF names = {} THEN <<>>
    ELSE LET least == CHOOSE n \in names : \A m \in names \ {n} : StrLess(n, m)
         IN  <<least>> \o Sorted(names \ {least})

\* what follows the last "/" of a path
Basename(path) ==
    LET slashes == {n \in 1..Len(path) : path[n] = "/"} IN
    IF slashes = {} THEN path
    ELSE SubSeq(path, (CHOOSE n \in slashes : \A m \in slashes : m <= n) + 1, Len(path))

\* os.listdir(dir): the names of the files in the directory, as a set (the
\* order of the listing is unspecified)
ListDir(d, dir) == {Basename(p) : p \in {q \in DOMAIN d : Dirname(q) = dir}}

DotGlb == <<".", "g", "l", "b">>

-----------------------------------------------------------------------------
(* racinggame.py: pygame events, and what a menu handler returns.          *)

Event(type, key, button) == [key |-> key, type |-> type, button |-> button]
NoEvent == Event("none", "none", 0)
QuitEvent == Event("QUIT", "none", 0)
KeyDown(key) == Event("KEYDOWN", key, 0)
MouseButtonDown(button) == Event("MOUSEBUTTONDOWN", "none", button)
MouseMotion == Event("MOUSEMOTION", "none", 0)

FORCE_CRASH_MSG == "Force crash triggered by Ctrl+Shift+C"
ExitGameMsg == "Exit Game button pressed"

\* pygame.key.get_mods(): whether a Ctrl key and a Shift key are held
Mods(ctrl, shift) == [ctrl |-> ctrl, shift |-> shift]

\* the test "event.key == K_c and get_mods() & KMOD_CTRL and get_mods() & KMOD_SHIFT"
ForceCrashChord(event, mods) == event.key = "K_c" /\ mods.ctrl /\ mods.shift

\* what handle_event returns: None, a str, or the start_game tuple
Result(kind, text, car, level) == [kind |-> kind, text |-> text, car |-> car, level |-> level]
ReturnsNone == Result("None", "", PyNone, PyNone)
ReturnsStr(text) == Result("str", text, PyNone, PyNone)
ReturnsStartGame(car, level) == Result("tuple", "start_game", car, level)

\* "if result:" - None is false, a non-empty str or tuple is true
Truthy(result) == result.kind = "tuple" \/ (result.kind = "str" /\ result.text # "")

\* the outcome of a handler: the object after it, what it returned or raised
Outcome(obj, result, raised) == [obj |-> obj, result |-> result, raised |-> raised]

-----------------------------------------------------------------------------
(* racinggame.py: StartMenu.                                               *)

\* the width of a rendered name and the height of a line of the menu font
GlyphWidth == 14
LineHeight == 25
TextWidth(chars) == GlyphWidth * Len(chars)

Rect(left, top, width, height) == [pos |-> <<left, top>>, size |-> <<width, height>>]

\* StartMenu._get_levels
GetLevels(d) == Sorted({f \in ListDir(d, LevelsDir) : EndsWith(LowerStr(f), DotJson)})

\* StartMenu._load_car_preview: whether a preview scene is held afterwards;
\* loads tells whether Scene.from_file and the shader compile went through
LoadCarPreview(cars, selected_car, loads) == cars # <<>> /\ selected_car >= 0 /\ loads

\* StartMenu.__init__, given the listing of assets/cars and the files
NewStartMenu(car_listing, d, loads) ==
    LET cars == SelectSeq(car_listing, LAMBDA f : EndsWith(LowerStr(f), DotGlb))
        selected_car == IF cars # <<>> THEN 0 ELSE 0 - 1
        levels == GetLevels(d)
    IN  [cars |-> cars, selected_car |-> selected_car,
         levels |-> levels, selected_level |-> IF levels # <<>> THEN 0 ELSE 0 - 1,
         level_rects |-> <<>>,
         preview |-> LoadCarPreview(cars, selected_car, loads)]

\* StartMenu.render: the rectangles of the level names, from self.levels
StartMenuRender(sm) ==
    [sm EXCEPT !.level_rects =
        [n \in 1..Len(sm.levels) |->
            Rect(80, 150 + (n - 1) * 40, TextWidth(sm.levels[n]), LineHeight)]]

\* a handler that keeps a selection beyond the end of the list
KeepSelection(selected_level, levels) == selected_level

\* the first lines of handle_event: a selection beyond the fresh list moves
\* to its last entry, or to -1 when the list is empty
ClampSelection(selected_level, levels) ==
    IF selected_level >= Len(levels)
    THEN (IF levels # <<>> THEN Len(levels) - 1 ELSE 0 - 1)
    ELSE selected_level

\* seq[index] would raise IndexError
IndexError(seq, index) == index >= Len(seq) \/ index < 0 - Len(seq)

\* the branch of K_RETURN: the tuple, or the IndexError of a list access
ConfirmSelection(sm) ==
    IF \/ (sm.selected_car >= 0 /\ IndexError(sm.cars, sm.selected_car))
       \/ (sm.selected_level >= 0 /\ IndexError(sm.levels, sm.selected_level))
    THEN Outcome(sm, ReturnsNone, "IndexError")
    ELSE Outcome(sm,
             ReturnsStartGame(
                 IF sm.selected_car >= 0 THEN PyStr(PyIndex(sm.cars, sm.selected_car))
                 ELSE PyNone,
                 IF sm.selected_level >= 0 THEN PyStr(PyIndex(sm.levels, sm.selected_level))
                 ELSE PyNone),
             "none")

\* the KEYDOWN branch of handle_event
StartMenuKeyDown(sm, key, loads) ==
    LET n == Len(sm.levels) IN
    CASE key = "K_UP" ->
            Outcome(IF sm.selected_level > 0
                    THEN [sm EXCEPT !.selected_level = @ - 1]
                    ELSE IF sm.selected_level = 0 /\ sm.levels # <<>>
                    THEN [sm EXCEPT !.selected_level = n - 1]
                    ELSE sm,
                    ReturnsNone, "none")
      [] key = "K_DOWN" ->
            Outcome(IF sm.selected_level < n - 1
                    THEN [sm EXCEPT !.selected_level = @ + 1]
                    ELSE IF sm.selected_level = n - 1 /\ sm.levels # <<>>
                    THEN [sm EXCEPT !.selected_level = 0]
                    ELSE sm,
                    ReturnsNone, "none")
      [] key = "K_LEFT" ->
            Outcome(IF sm.selected_car > 0
                    THEN [sm EXCEPT !.selected_car = @ - 1,
                                    !.preview = LoadCarPreview(sm.cars, sm.selected_car - 1,
                                                               loads)]
                    ELSE sm,
                    ReturnsNone, "none")
      [] key = "K_RIGHT" ->
            Outcome(IF sm.selected_car < Len(sm.cars) - 1
                    THEN [sm EXCEPT !.selected_car = @ + 1,
                                    !.preview = LoadCarPreview(sm.cars, sm.selected_car + 1,
                                                               loads)]
                    ELSE sm,
                    ReturnsNone, "none")
      [] key = "K_RETURN" -> ConfirmSelection(sm)
      [] key = "K_ESCAPE" -> Outcome(sm, ReturnsStr("back"), "none")
      [] OTHER -> Outcome(sm, ReturnsNone, "none")

\* the MOUSEBUTTONDOWN branch: the first rectangle of the last render that
\* holds the pointer selects its index
StartMenuClick(sm, mouse_pos) ==
    LET hit == {n \in 1..Len(sm.level_rects) :
                    CollidePoint(sm.level_rects[n].pos, sm.level_rects[n].size, mouse_pos)}
    IN  Outcome(IF hit = {} THEN sm
                ELSE [sm EXCEPT !.selected_level =
                         (CHOOSE n \in hit : \A m \in hit : n <= m) - 1],
                ReturnsNone, "none")

\* StartMenu.handle_event(event), with the files as they are at the call
StartMenuHandleEvent(sm, event, d, mouse_pos, loads) ==
    LET levels == GetLevels(d)
        fresh == [sm EXCEPT !.levels = levels,
                            !.selected_level = ClampSelection(sm.selected_level, levels)]
    IN  CASE event.type = "KEYDOWN" -> StartMenuKeyDown(fresh, event.key, loads)
          [] event.type = "MOUSEBUTTONDOWN" /\ event.button = 1 ->
                StartMenuClick(fresh, mouse_pos)
          [] OTHER -> Outcome(fresh, ReturnsNone, "none")

-----------------------------------------------------------------------------
(* racinggame.py: MainMenu.                                                *)

button_names == <<"Start", "Multiplayer", "Options", "Credits", "Exit Game">>

\* MainMenu.__init__: the five buttons, 70 apart
NewMainMenuButtons ==
    [n \in 1..Len(button_names) |->
        NewButton(<<60, 60 + (50 + 20) * (n - 1)>>, <<200, 50>>)
            @@ [text |-> button_names[n]]]

\* str.lower of a button's text
LowerText(text) ==
    CASE text = "Start" -> "start"
      [] text = "Multiplayer" -> "multiplayer"
      [] text = "Options" -> "options"
      [] text = "Credits" -> "credits"
      [] text = "Exit Game" -> "exit game"

\* MainMenu.render: every button is updated with the pointer's position
MainMenuRender(bs, mouse_pos) == [n \in 1..Len(bs) |-> Update(bs[n], mouse_pos)]

\* MainMenu.handle_event(event): the pointer and the pressed buttons are read
\* when the event is handled
MainMenuHandleEvent(bs, event, mouse_pos, mouse_pressed, mods) ==
    LET clicked == {n \in 1..Len(bs) : IsClicked(bs[n], mouse_pos, mouse_pressed)}
        first == CHOOSE n \in clicked : \A m \in clicked : n <= m
    IN  IF event.type = "MOUSEBUTTONDOWN" /\ event.button = 1
        THEN IF clicked = {} THEN Outcome(bs, ReturnsNone, "none")
             ELSE IF LowerText(bs[first].text) = "exit game"
             THEN Outcome(bs, ReturnsNone, ExitGameMsg)
             ELSE Outcome(bs, ReturnsStr(bs[first].text), "none")
        ELSE IF event.type = "KEYDOWN" /\ ForceCrashChord(event, mods)
        THEN Outcome(bs, ReturnsNone, FORCE_CRASH_MSG)
        ELSE Outcome(bs, ReturnsNone, "none")

-----------------------------------------------------------------------------
(* racinggame.py: the event loop of main().                                *)

\* an event loop in which the Escape key closes the window
DispatchEscapeQuits(event, menu) ==
    IF event.type = "QUIT" \/ event = KeyDown("K_ESCAPE") THEN "quit"
    ELSE IF event.type = "KEYDOWN" THEN "key"
    ELSE IF menu = "main" THEN "main"
    ELSE IF menu = "start_menu" THEN "start_menu"
    ELSE "none"

\* an event loop that hands the events of every other menu to the main menu
DispatchMainElsewhere(event, menu) ==
    IF event.type = "QUIT" THEN "quit"
    ELSE IF event.type = "KEYDOWN" THEN "key"
    ELSE IF menu = "start_menu" THEN "start_menu"
    ELSE "main"

\* the branch of the if/elif chain that an event takes
Dispatch(event, menu) ==
    IF event.type = "QUIT" THEN "quit"
    ELSE IF event.type = "KEYDOWN" THEN "key"
    ELSE IF menu = "main" THEN "main"
    ELSE IF menu = "start_menu" THEN "start_menu"
    ELSE "none"

\* the menu after a menu action of the main menu
MenuOfAction(menu_action) == IF menu_action = "Start" THEN "start_menu" ELSE menu_action

\* the title of the placeholder screen of a menu
PlaceholderTitle(menu) ==
    CASE menu = "settings" -> "Settings"
      [] menu = "map_selection" -> "Map Selection"
      [] menu = "car_selection" -> "Car Selection"
      [] OTHER -> "Unknown Menu"

\* what the frame shows
Screen(menu) ==
    IF menu = "main" THEN "main"
    ELSE IF menu = "start_menu" THEN "start_menu"
    ELSE PlaceholderTitle(menu)

\* a step of a menu or of the loop, as lastStep records it
Step(op, event, menu, handler, result, raised, screen) ==
    [op |-> op, result |-> result, event |-> event, raised |-> raised,
     menu |-> menu, handler |-> handler, screen |-> screen]
NoStep == Step("none", NoEvent, "none", "none", ReturnsNone, "none", "none")

-----------------------------------------------------------------------------
(* The files, pointers and calls of SpecStartMenu and SpecLoop.            *)

LevelA == <<"a", ".", "j", "s", "o", "n">>
LevelB == <<"b", ".", "J", "S", "O", "N">>
LevelZ == <<"Z", ".", "j", "s", "o", "n">>
NotesTxt == <<"a", ".", "t", "x", "t">>
CarP == <<"p", ".", "g", "l", "b">>
CarQ == <<"q", ".", "G", "L", "B">>

LevelNames == {LevelA, LevelB, LevelZ, NotesTxt}
LevelPath(name) == LevelsDir \o <<"/">> \o name

\* listings of assets/cars: no car, one car, two cars out of order
CarListings == {<<NotesTxt>>, <<CarP>>, <<CarQ, NotesTxt, CarP>>}

\* the level files that exist when the menus are built
MenuDisk == [p \in {LevelPath(LevelA), LevelPath(LevelB), LevelPath(NotesTxt)} |->
                Encode(JObj(<<>>))]

NoMods == Mods(FALSE, FALSE)
Pressed(left) == <<left, FALSE, FALSE>>

\* key presses <<key, mods, loads>>.  The handlers read the modifiers only
\* after finding the key to be K_c, and load a car preview only on K_LEFT and
\* K_RIGHT: the other keys come with one value of each.
KeyPresses ==
    {<<"K_c", Mods(ctrl, shift), FALSE>> : ctrl \in BOOLEAN, shift \in BOOLEAN}
    \cup {<<key, NoMods, loads>> : key \in {"K_LEFT", "K_RIGHT"}, loads \in BOOLEAN}
    \cup {<<key, NoMods, FALSE>> : key \in {"K_UP", "K_DOWN", "K_RETURN", "K_ESCAPE"}}

\* pointer positions when a click is handled: the middle of each main-menu
\* button, the first three level rows of the start menu (the first lies in
\* the Multiplayer button), and a corner of the window
Pointers ==
    {<<160, 85 + 70 * n>> : n \in 0..4}
    \cup {<<80, 150>>, <<80, 190>>, <<80, 230>>, <<0, 0>>}

\* mouse button presses <<button, mouse_pos, left>>: the left button with the
\* pointer at each position, the same found released again when the event is
\* handled, and the right button.  The handlers read the pointer only after
\* finding the button to be 1.
Clicks ==
    {<<1, mouse_pos, TRUE>> : mouse_pos \in Pointers}
    \cup {<<1, <<160, 85>>, FALSE>>, <<1, <<160, 365>>, FALSE>>, <<3, <<0, 0>>, FALSE>>}

\* pointer positions when the main menu is rendered: on the Start button, off
\* every button
RenderPointers == {<<160, 85>>, <<0, 0>>}

InitMenuFiles ==
    /\ disk = MenuDisk
    /\ dirs = {LevelsDir}
    /\ lastGen = NoGen
    /\ ret = NoCall

\* main() is not running: the menus are called directly
NoLoop == current_menu = "main" /\ running = TRUE /\ pc = "none"

InitStartMenu ==
    /\ buttons = NewMainMenuButtons
    /\ \E car_listing \in CarListings, loads \in BOOLEAN :
          start_menu = NewStartMenu(car_listing, disk, loads)
    /\ NoLoop
    /\ lastStep = [NoStep EXCEPT !.op = "init"]

\* start_menu.handle_event(event)
HandleEventCall(event, mouse_pos, loads) ==
    LET r == StartMenuHandleEvent(start_menu, event, disk, mouse_pos, loads) IN
    /\ pc = "none"
    /\ start_menu' = r.obj
    /\ lastStep' = Step("handle_event", event, "start_menu", "start_menu", r.result,
                    r.raised, "none")
    /\ UNCHANGED <<buttons, current_menu, running, pc,
                   mapVars, renderVars, buttonVars, playerVars>>

\* start_menu.render()
RenderCall ==
    /\ pc = "none"
    /\ start_menu' = StartMenuRender(start_menu)
    /\ lastStep' = Step("render", NoEvent, "start_menu", "none", ReturnsNone, "none",
                    "start_menu")
    /\ UNCHANGED <<buttons, current_menu, running, pc,
                   mapVars, renderVars, buttonVars, playerVars>>

\* a file appears in levels/
CreateLevelFile(name) ==
    /\ pc = "none"
    /\ LevelPath(name) \notin DOMAIN disk
    /\ disk' = WriteFile(disk, LevelPath(name), Encode(JObj(<<>>)))
    /\ lastStep' = [NoStep EXCEPT !.op = "files"]
    /\ UNCHANGED <<dirs, lastGen, ret, buttons, start_menu, current_menu, running, pc,
                   renderVars, buttonVars, playerVars>>

\* a file of levels/ is deleted
RemoveLevelFile(name) ==
    /\ pc = "none"
    /\ LevelPath(name) \in DOMAIN disk
    /\ disk' = [p \in DOMAIN disk \ {LevelPath(name)} |-> disk[p]]
    /\ lastStep' = [NoStep EXCEPT !.op = "files"]
    /\ UNCHANGED <<dirs, lastGen, ret, buttons, start_menu, current_menu, running, pc,
                   renderVars, buttonVars, playerVars>>

NextStartMenu ==
    \/ \E k \in KeyPresses : HandleEventCall(KeyDown(k[1]), <<0, 0>>, k[3])
    \/ \E c \in Clicks : HandleEventCall(MouseButtonDown(c[1]), c[2], FALSE)
    \/ \E event \in {QuitEvent, MouseMotion} : HandleEventCall(event, <<0, 0>>, FALSE)
    \/ RenderCall
    \/ \E name \in LevelNames : CreateLevelFile(name)
    \/ \E name \in LevelNames : RemoveLevelFile(name)

\* main() up to the while loop
InitLoop ==
    /\ buttons = NewMainMenuButtons
    /\ start_menu = NewStartMenu(<<CarQ, NotesTxt, CarP>>, disk, TRUE)
    /\ current_menu = "main"
    /\ running = TRUE
    /\ pc = "frame"
    /\ lastStep = [NoStep EXCEPT !.op = "init"]

\* one pass of "for event in pygame.event.get()": the batch, of any length,
\* is revealed one event at a time
LoopHandleEvent(event, mouse_pos, mouse_pressed, mods, loads) ==
    LET branch == Dispatch(event, current_menu)
        m == MainMenuHandleEvent(buttons, event, mouse_pos, mouse_pressed, mods)
        s == StartMenuHandleEvent(start_menu, event, disk, mouse_pos, loads)
        raised == CASE branch = "key" ->
                          IF ForceCrashChord(event, mods) THEN FORCE_CRASH_MSG ELSE "none"
                    [] branch = "main" -> m.raised
                    [] branch = "start_menu" -> s.raised
                    [] OTHER -> "none"
        result == CASE branch = "main" -> m.result
                    [] branch = "start_menu" -> s.result
                    [] OTHER -> ReturnsNone
    IN  /\ pc = "frame"
        /\ running' = IF branch = "quit" THEN FALSE ELSE running
        /\ start_menu' = IF branch = "start_menu" THEN s.obj ELSE start_menu
        /\ current_menu' =
              CASE branch = "main" /\ raised = "none" /\ Truthy(result) ->
                      MenuOfAction(result.text)
                [] branch = "start_menu" /\ raised = "none" /\ result = ReturnsStr("back") ->
                      "main"
                [] OTHER -> current_menu
        /\ pc' = IF raised = "none" THEN "frame" ELSE "exit"
        /\ lastStep' = Step("event", event, current_menu, branch, result, raised, "none")
        /\ UNCHANGED <<buttons, mapVars, renderVars, buttonVars, playerVars>>

\* the rest of the loop body once the batch is exhausted: the frame is
\* rendered and flipped, and "while running" is tested
LoopRender(mouse_pos) ==
    /\ pc = "frame"
    /\ buttons' = IF current_menu = "main" THEN MainMenuRender(buttons, mouse_pos)
                  ELSE buttons
    /\ start_menu' = IF current_menu = "start_menu" THEN StartMenuRender(start_menu)
                     ELSE start_menu
    /\ pc' = IF running THEN "frame" ELSE "done"
    /\ lastStep' = Step("render", NoEvent, current_menu, "none", ReturnsNone, "none",
                    Screen(current_menu))
    /\ UNCHANGED <<current_menu, running, mapVars, renderVars, buttonVars, playerVars>>

NextLoop ==
    \/ \E k \in KeyPresses :
          LoopHandleEvent(KeyDown(k[1]), <<0, 0>>, Pressed(FALSE), k[2], k[3])
    \/ \E c \in Clicks :
          LoopHandleEvent(MouseButtonDown(c[1]), c[2], Pressed(c[3]), NoMods, FALSE)
    \/ \E event \in {QuitEvent, MouseMotion} :
          LoopHandleEvent(event, <<0, 0>>, Pressed(FALSE), NoMods, FALSE)
    \/ \E mouse_pos \in RenderPointers : LoopRender(mouse_pos)

-----------------------------------------------------------------------------
(* racinggame.py: Player.                                                  *)

\* a float read from time.time(), in whole seconds
PyFloat(v) == [t |-> "float", v |-> v]

\* Player.__init__
NewPlayer == [turning |-> FALSE, turn_start_time |-> PyNone, speed_gain_bug_active |-> FALSE]

\* a Player that keeps the start time when the turn ends
UpdateTurningKeepsStart(p, is_turning, now) ==
    IF is_turning
    THEN IF ~p.turning
         THEN [p EXCEPT !.turn_start_time = PyFloat(now), !.turning = TRUE]
         ELSE IF now - p.turn_start_time.v > 5
         THEN [p EXCEPT !.speed_gain_bug_active = TRUE]
         ELSE p
    ELSE [p EXCEPT !.turning = FALSE, !.speed_gain_bug_active = FALSE]

\* Player.update_turning(is_turning), time.time() returning now
UpdateTurning(p, is_turning, now) ==
    IF is_turning
    THEN IF ~p.turning
         THEN [p EXCEPT !.turn_start_time = PyFloat(now), !.turning = TRUE]
         ELSE IF now - p.turn_start_time.v > 5
         THEN [p EXCEPT !.speed_gain_bug_active = TRUE]
         ELSE p
    ELSE [turning |-> FALSE, turn_start_time |-> PyNone, speed_gain_bug_active |-> FALSE]

\* a run of the model makes 0..MaxCalls calls
MaxCalls == 5

\* seconds that pass between two readings of the clock
Gaps == {0, 5, 6}

\* the time of the last reading of the clock
Clock == IF turn_calls = <<>> THEN 0 ELSE turn_calls[Len(turn_calls)].time

InitPlayer == player = NewPlayer /\ turn_calls = <<>>

UpdateTurningCall(is_turning, now) ==
    /\ Len(turn_calls) < MaxCalls
    /\ player' = UpdateTurning(player, is_turning, now)
    /\ turn_calls' = Append(turn_calls, [is_turning |-> is_turning, time |-> now])
    /\ UNCHANGED <<mapVars, renderVars, buttonVars, menuVars>>

NextPlayer ==
    \E is_turning \in BOOLEAN, gap \in Gaps : UpdateTurningCall(is_turning, Clock + gap)

-----------------------------------------------------------------------------
(* Specifications.                                                         *)

\* the parts a specification leaves alone
IdleRender == glDepth = 0 /\ glLog = <<>> /\ frame = NoFrame
IdleButton ==
    /\ btn = NewButton(<<60, 60>>, <<200, 50>>)
    /\ mouse = [NoButtonCall EXCEPT !.op = "init"] @@ [before |-> btn]

IdleMenu ==
    /\ buttons = NewMainMenuButtons
    /\ start_menu = NewStartMenu(<<>>, MenuDisk, FALSE)
    /\ NoLoop
    /\ lastStep = NoStep
IdlePlayer == InitPlayer

InitSpecMap == InitMap /\ IdleRender /\ IdleButton /\ IdleMenu /\ IdlePlayer
InitSpecRender == InitMap /\ InitRender /\ IdleButton /\ IdleMenu /\ IdlePlayer
InitSpecButton == InitMap /\ IdleRender /\ InitButton /\ IdleMenu /\ IdlePlayer
InitSpecStartMenu ==
    InitMenuFiles /\ IdleRender /\ IdleButton /\ InitStartMenu /\ IdlePlayer
InitSpecLoop == InitMenuFiles /\ IdleRender /\ IdleButton /\ InitLoop /\ IdlePlayer
InitSpecPlayer == InitMap /\ IdleRender /\ IdleButton /\ IdleMenu /\ InitPlayer

\* Button.update runs once in every frame of the main menu
UpdateFrame == \E mouse_pos \in MousePositions(btn) : UpdateCall(mouse_pos)

SpecMap == InitSpecMap /\ [][NextMap]_vars
SpecRender == InitSpecRender /\ [][NextRender]_vars
SpecButton == InitSpecButton /\ [][NextButton]_vars
SpecButtonFrames == InitSpecButton /\ [][NextButton]_vars /\ WF_vars(UpdateFrame)
SpecStartMenu == InitSpecStartMenu /\ [][NextStartMenu]_vars
SpecLoop == InitSpecLoop /\ [][NextLoop]_vars
SpecPlayer == InitSpecPlayer /\ [][NextPlayer]_vars

-----------------------------------------------------------------------------
(* Claims about the map generator, loader and world builder (SpecMap).     *)

\* the tile at column x, row y (both from 0) of a map_data value
TileAt(map_data, x, y) == Get(map_data, "tiles", NoValue).items[y + 1].items[x + 1]
OnBorder(x, y, width, height) == x = 0 \/ x = width - 1 \/ y = 0 \/ y = height - 1

\* C1: for width, height >= 3 the generated grid has exactly height rows of
\* exactly width cells, every border cell is the wall tile and every other
\* cell is the empty tile
C1_EnclosedGrid ==
    (lastGen.called /\ lastGen.width >= 3 /\ lastGen.height >= 3) =>
        LET tiles == Get(lastGen.map_data, "tiles", NoValue) IN
        /\ tiles.t = "arr"
        /\ Len(tiles.items) = lastGen.height
        /\ \A y \in 0..(lastGen.height - 1) :
              /\ tiles.items[y + 1].t = "arr"
              /\ Len(tiles.items[y + 1].items) = lastGen.width
              /\ \A x \in 0..(lastGen.width - 1) :
                    TileAt(lastGen.map_data, x, y) =
                        JInt(IF OnBorder(x, y, lastGen.width, lastGen.height)
                             THEN lastGen.wall_tile ELSE lastGen.empty_tile)

\* a 4 x 3 map of walls 1 around two empty cells 0
C1_Witness ==
    /\ lastGen.called /\ lastGen.width = 4 /\ lastGen.height = 3
    /\ lastGen.wall_tile = 1 /\ lastGen.empty_tile = 0
    /\ TileAt(lastGen.map_data, 1, 1) = JInt(0)
    /\ TileAt(lastGen.map_data, 2, 1) = JInt(0)
    /\ TileAt(lastGen.map_data, 3, 1) = JInt(1)
    /\ TileAt(lastGen.map_data, 1, 2) = JInt(1)

StartOf(map_data) ==
    LET start == Get(map_data, "start", NoValue) IN
    [x |-> Get(start, "x", NoValue).i, y |-> Get(start, "y", NoValue).i]

\* C2: start is (floor(width/2), floor(height/2)) for every width and height;
\* 21 x 15 gives (10, 7); for width, height >= 3 the start cell is strictly
\* inside the border and holds the empty tile
C2_StartAtCentre ==
    lastGen.called =>
        LET start == StartOf(lastGen.map_data) IN
        /\ 2 * start.x <= lastGen.width /\ lastGen.width < 2 * start.x + 2
        /\ 2 * start.y <= lastGen.height /\ lastGen.height < 2 * start.y + 2
        /\ (lastGen.width = 21 /\ lastGen.height = 15) => start = [x |-> 10, y |-> 7]
        /\ (lastGen.width >= 3 /\ lastGen.height >= 3) =>
              /\ 0 < start.x /\ start.x < lastGen.width - 1
              /\ 0 < start.y /\ start.y < lastGen.height - 1
              /\ TileAt(lastGen.map_data, start.x, start.y) = JInt(lastGen.empty_tile)

\* the 21 x 15 map with its start at (10, 7)
C2_Witness ==
    /\ lastGen.called /\ lastGen.width = 21 /\ lastGen.height = 15
    /\ StartOf(lastGen.map_data) = [x |-> 10, y |-> 7]

\* the last call loaded the file that the generator wrote
LoadedGenerated ==
    /\ ret.op = "load" /\ lastGen.called /\ lastGen.wrote
    /\ ret.path = PyStr(lastGen.out_path)

\* C3: a map description written to a map file (a path ending in ".json") and
\* loaded from it again is the map description that was written
C3_RoundTrip ==
    (LoadedGenerated /\ EndsWith(lastGen.out_path, DotJson)) =>
        /\ ret.status = "ok"
        /\ ret.data = lastGen.map_data

\* the 21 x 15 map written to the default path and loaded back
C3_Witness ==
    /\ LoadedGenerated /\ ret.status = "ok"
    /\ lastGen.width = 21 /\ lastGen.height = 15
    /\ Get(ret.data, "width", NoValue) = JInt(21)
    /\ Len(Get(ret.data, "tiles", NoValue).items) = 15

\* the disk as the calls so far have left it
DiskAsWritten ==
    IF lastGen.called /\ lastGen.wrote
    THEN [p \in DOMAIN InitialDisk \cup {lastGen.out_path} |->
            IF p = lastGen.out_path THEN Encode(lastGen.map_data) ELSE InitialDisk[p]]
    ELSE InitialDisk

\* the last five characters of the path are ".json"
JsonExtension(path) ==
    /\ path.t = "str"
    /\ Len(path.s) >= 5
    /\ path.s[Len(path.s) - 4] = "." /\ path.s[Len(path.s) - 3] = "j"
    /\ path.s[Len(path.s) - 2] = "s" /\ path.s[Len(path.s) - 1] = "o"
    /\ path.s[Len(path.s)] = "n"

\* C4: loading from an absent or empty path, or one that does not end in
\* ".json", raises the invalid-path error before any file is opened, returns
\* no map data and leaves the files as they were
C4_InvalidPathRejected ==
    (ret.op = "load" /\ ~JsonExtension(ret.path)) =>
        /\ ret.status = "ValueError"
        /\ ~ret.openCalled
        /\ ret.data = NoValue
        /\ ret.world = NoWorld
        /\ disk = DiskAsWritten

\* a load of the existing file levels/g.JSON, rejected unopened
C4_Witness ==
    /\ ret.op = "load" /\ ret.path = PyStr(UpperPath) /\ UpperPath \in DOMAIN disk
    /\ ret.status = "ValueError" /\ ~ret.openCalled

\* the value a payload holds under a key, found by position
Present(payload, key, val) ==
    \E n \in 1..Len(payload.members) :
        payload.members[n].key = key /\ payload.members[n].val = val

WorldField(world, key) ==
    CASE key = "track" -> world.track
      [] key = "checkpoints" -> world.checkpoints
      [] key = "obstacles" -> world.obstacles

\* C5: the world builder returns a World for every loaded map payload and
\* never fails; track, checkpoints and obstacles present in the payload are
\* carried over unchanged and those missing become empty sequences
C5_WorldBuilderTotal ==
    ret.op = "world" =>
        /\ ret.status = "ok"
        /\ \A key \in WorldKeys :
              IF \E n \in 1..Len(ret.data.members) : ret.data.members[n].key = key
              THEN Present(ret.data, key, WorldField(ret.world, key))
              ELSE WorldField(ret.world, key) = JArr(<<>>)

\* the world built from a payload that is a dict with a track and checkpoints
\* and no obstacles
C5_Witness ==
    /\ ret.op = "world" /\ ret.status = "ok"
    /\ Present(ret.data, "track", SampleTrack)
    /\ ~\E n \in 1..Len(ret.data.members) : ret.data.members[n].key = "obstacles"
    /\ ret.world.track = SampleTrack
    /\ ret.world.checkpoints = SampleCheckpoints
    /\ ret.world.obstacles = JArr(<<>>)

\* width and height, where given, are positive, and tiles, where given with
\* them, has height rows of width cells
WellFormedMap(map_data) ==
    LET width == Get(map_data, "width", NoValue)
        height == Get(map_data, "height", NoValue)
        tiles == Get(map_data, "tiles", NoValue)
    IN  /\ map_data.t = "obj"
        /\ width.t = "int" => width.i > 0
        /\ height.t = "int" => height.i > 0
        /\ (width.t = "int" /\ height.t = "int" /\ tiles.t = "arr") =>
              /\ Len(tiles.items) = height.i
              /\ \A r \in 1..Len(tiles.items) : Len(tiles.items[r].items) = width.i

\* C6: the loader never returns a semantically invalid map (non-positive width
\* or height, tiles that do not match them) as a successfully loaded map
C6_SchemaChecked ==
    (ret.op = "load" /\ ret.status = "ok") => WellFormedMap(ret.data)

-----------------------------------------------------------------------------
(* Claims about rendering (SpecRender).                                    *)

PartNamed(name) == IF name = "straight" THEN StraightPart ELSE CurvePart
Increasing(seq) == \A i, j \in 1..Len(seq) : i < j => seq[i].segment < seq[j].segment
SegmentsOf(seq) == {seq[i].segment : i \in 1..Len(seq)}

\* C7: rendering a track submits exactly one mesh draw for each segment whose
\* part type (default "straight") is in the library, in array order, and for a
\* segment of unknown type submits nothing, emits exactly one diagnostic and
\* goes on with the following segments
C7_OneDrawPerKnownSegment ==
    frame.op = "track" =>
        LET track == frame.track
            known == {n \in 1..Len(track) : PartType(track[n]) \in frame.parts}
            unknown == (1..Len(track)) \ known
        IN  /\ Len(frame.submits) = Cardinality(known)
            /\ SegmentsOf(frame.submits) = known
            /\ Increasing(frame.submits)
            /\ Len(frame.diagnostics) = Cardinality(unknown)
            /\ SegmentsOf(frame.diagnostics) = unknown
            /\ Increasing(frame.diagnostics)
            /\ \A i \in 1..Len(frame.submits) :
                  LET sub == frame.submits[i] IN
                  /\ sub.vertices = PartNamed(PartType(track[sub.segment])).vertices
                  /\ sub.faces = PartNamed(PartType(track[sub.segment])).faces
            /\ Cardinality({n \in 1..Len(glLog) : glLog[n].op = "glPushMatrix"})
                  = Cardinality(known)
            /\ glDepth = frame.depthBefore

\* an unknown segment followed by a known one: one draw, one diagnostic
C7_Witness ==
    /\ frame.op = "track" /\ Len(frame.track) = 2
    /\ PartType(frame.track[1]) = "loop" /\ PartType(frame.track[2]) = "straight"
    /\ frame.parts = {"straight"}
    /\ Len(frame.submits) = 1 /\ frame.submits[1].segment = 2
    /\ Len(frame.diagnostics) = 1 /\ frame.diagnostics[1].segment = 1

\* C8: a mesh draw call saves the matrix, translates, rotates about X, then Y,
\* then Z, scales, emits the three vertices of every face in face and index
\* order, and restores the matrix, leaving the stack depth as it found it
C8_DrawCallOrder ==
    frame.op = "mesh" =>
        LET faces == frame.mesh.faces
            vertices == frame.mesh.vertices
            last == 9 + 3 * Len(faces)
        IN  /\ Len(glLog) = last
            /\ glLog[1] = [op |-> "glPushMatrix", args |-> <<>>]
            /\ glLog[2] = [op |-> "glTranslatef", args |-> frame.position]
            /\ glLog[3] = [op |-> "glRotatef", args |-> <<frame.rotation[1], 1, 0, 0>>]
            /\ glLog[4] = [op |-> "glRotatef", args |-> <<frame.rotation[2], 0, 1, 0>>]
            /\ glLog[5] = [op |-> "glRotatef", args |-> <<frame.rotation[3], 0, 0, 1>>]
            /\ glLog[6] = [op |-> "glScalef", args |-> frame.scale]
            /\ glLog[7].op = "glBegin"
            /\ \A f \in 1..Len(faces) : \A k \in 1..3 :
                  LET index == faces[f][k]
                      vertex == vertices[IF index >= 0 THEN index + 1
                                         ELSE Len(vertices) + index + 1]
                  IN  glLog[7 + 3 * (f - 1) + k] = [op |-> "glVertex3fv", args |-> vertex]
            /\ glLog[last - 1].op = "glEnd"
            /\ glLog[last] = [op |-> "glPopMatrix", args |-> <<>>]
            /\ glDepth = frame.depthBefore

\* the two-face curve part drawn rotated and scaled, with a matrix already saved
C8_Witness ==
    /\ frame.op = "mesh" /\ frame.mesh = CurvePart
    /\ frame.rotation = <<10, 20, 30>> /\ frame.scale = <<2, 3, 4>>
    /\ frame.depthBefore = 1 /\ glDepth = 1
    /\ Len(glLog) = 15

-----------------------------------------------------------------------------
(* Claims about the Button widget (SpecButton).                            *)

InsideBase(b, point) ==
    /\ b.pos[1] <= point[1] /\ point[1] <= b.pos[1] + b.size[1] - 1
    /\ b.pos[2] <= point[2] /\ point[2] <= b.pos[2] + b.size[2] - 1

\* C9: after update(mouse_pos) the button is hovered exactly when mouse_pos is
\* inside the rectangle of its position and base size; the target size and
\* opacity are those of that state; position and base size are unchanged
C9_HoverByBaseRect ==
    mouse.op = "update" =>
        /\ btn.is_hovered = InsideBase(mouse.before, mouse.mouse_pos)
        /\ IF btn.is_hovered
           THEN /\ btn.target_alpha = 255
                /\ \A i \in 1..2 :
                      /\ btn.target_size[i] * 100 <= btn.size[i] * 108
                      /\ btn.size[i] * 108 < (btn.target_size[i] + 1) * 100
           ELSE /\ btn.target_alpha = 128
                /\ btn.target_size = btn.size
        /\ btn.pos = mouse.before.pos
        /\ btn.size = mouse.before.size

\* the pointer just right of the base rectangle of a button that has grown:
\* inside the drawn rectangle, and the button is idle
C9_Witness ==
    /\ mouse.op = "update"
    /\ mouse.before.current_size[1] >= mouse.before.size[1] + 10
    /\ mouse.mouse_pos = <<btn.pos[1] + btn.size[1], btn.pos[2]>>
    /\ ~btn.is_hovered /\ btn.target_size = btn.size

\* the change update made to each channel, and what it aimed at
Channels ==
    <<[old |-> mouse.before.current_size[1], new |-> btn.current_size[1],
       target |-> btn.target_size[1]],
      [old |-> mouse.before.current_size[2], new |-> btn.current_size[2],
       target |-> btn.target_size[2]],
      [old |-> mouse.before.current_alpha, new |-> btn.current_alpha,
       target |-> btn.target_alpha]>>

\* C10: each update moves each of width, height and opacity once, by exactly
\* (target - current) * 0.22, the target being that of the hover state computed
\* in the same call
C10_ExactStep ==
    mouse.op = "update" =>
        \A c \in 1..3 :
            (Channels[c].new - Channels[c].old) * 100
                = (Channels[c].target - Channels[c].old) * 22

\* the step that update takes instead: (target - current) * 0.22 with its
\* fraction dropped, toward zero, for each of width, height and opacity
C10_TruncatedStep ==
    mouse.op = "update" =>
        /\ btn.target_alpha = (IF btn.is_hovered THEN 255 ELSE 128)
        /\ \A c \in 1..3 :
              LET step == Channels[c].new - Channels[c].old
                  exact == (Channels[c].target - Channels[c].old) * 22
              IN  IF exact >= 0
                  THEN step * 100 <= exact /\ exact < (step + 1) * 100
                  ELSE (step - 1) * 100 < exact /\ exact <= step * 100

\* opacity falling from 155 toward 128 by int(-5.94) = -5, while the width
\* falls from 203 toward 200 by int(-0.66) = 0
C10_Witness ==
    /\ mouse.op = "update" /\ ~btn.is_hovered
    /\ mouse.before.current_alpha = 155 /\ btn.current_alpha = 150
    /\ mouse.before.current_size[1] = 203 /\ btn.current_size[1] = 203

\* the button shows its hover values: opacity 255 and int(base size * 1.08)
AtHoverValues ==
    /\ btn.current_alpha = 255
    /\ \A i \in 1..2 :
          /\ btn.current_size[i] * 100 <= btn.size[i] * 108
          /\ btn.size[i] * 108 < (btn.current_size[i] + 1) * 100

\* the button shows its idle values: opacity 128 and the base size
AtIdleValues == btn.current_alpha = 128 /\ btn.current_size = btn.size

\* C13: with update called in every frame, if from some frame on the pointer is
\* always inside the button then size and opacity come to equal the hover
\* values, and if from some frame on it is always outside (after any hovering
\* before) they come to equal the idle values again
C13_EaseReachesTarget ==
    /\ <>[]btn.is_hovered => <>[]AtHoverValues
    /\ <>[](~btn.is_hovered) => <>[]AtIdleValues

\* C14: after any updates the opacity is within 128..255 and each size
\* component within base..int(base * 1.08), and the last update left each
\* channel between where it was and its target
C14_WithinBounds ==
    /\ 128 <= btn.current_alpha /\ btn.current_alpha <= 255
    /\ \A i \in 1..2 :
          /\ btn.size[i] <= btn.current_size[i]
          /\ btn.current_size[i] * 100 <= btn.size[i] * 108
    /\ mouse.op = "update" =>
          \A c \in 1..3 :
              /\ Channels[c].old <= Channels[c].target =>
                    (Channels[c].old <= Channels[c].new /\ Channels[c].new <= Channels[c].target)
              /\ Channels[c].old >= Channels[c].target =>
                    (Channels[c].target <= Channels[c].new /\ Channels[c].new <= Channels[c].old)

\* a button that was fading out at opacity 146 and width 203 is hovered again:
\* the step turns round, to 169 and 205
C14_Witness ==
    /\ mouse.op = "update" /\ btn.is_hovered /\ ~mouse.before.is_hovered
    /\ mouse.before.current_alpha = 146 /\ btn.current_alpha = 169
    /\ mouse.before.current_size[1] = 203 /\ btn.current_size[1] = 205

-----------------------------------------------------------------------------
(* Claims about the start menu called directly (SpecStartMenu).            *)

\* the names in levels/ whose last five characters are ".json" in any case
ListedLevels ==
    {SubSeq(p, 8, Len(p)) :
        p \in {q \in DOMAIN disk :
                 /\ Len(q) >= 12 /\ SubSeq(q, 1, 7) = <<"l", "e", "v", "e", "l", "s", "/">>
                 /\ q[Len(q) - 4] = "."
                 /\ q[Len(q) - 3] \in {"j", "J"} /\ q[Len(q) - 2] \in {"s", "S"}
                 /\ q[Len(q) - 1] \in {"o", "O"} /\ q[Len(q)] \in {"n", "N"}}}

EnterPressed ==
    /\ lastStep.op = "handle_event"
    /\ lastStep.event = [type |-> "KEYDOWN", key |-> "K_RETURN", button |-> 0]

\* C15: whatever events, renders and changes of the level files came before, an
\* ENTER press raises no IndexError; after it selected_level is -1 or an index
\* of the levels as the files then list them, selected_car is -1 or an index
\* of the cars, and the start_game tuple holds None exactly for an index of -1
\* and otherwise the name at the index
C15_EnterInRange ==
    EnterPressed =>
        LET level == start_menu.selected_level
            car == start_menu.selected_car
        IN  /\ lastStep.raised = "none"
            /\ level \in (0 - 1)..(Cardinality(ListedLevels) - 1)
            /\ car \in (0 - 1)..(Len(start_menu.cars) - 1)
            /\ lastStep.result.kind = "tuple" /\ lastStep.result.text = "start_game"
            /\ (lastStep.result.level = [t |-> "none"]) <=> (level = 0 - 1)
            /\ level >= 0 =>
                  /\ lastStep.result.level.s \in ListedLevels
                  /\ lastStep.result.level.s = start_menu.levels[level + 1]
            /\ (lastStep.result.car = [t |-> "none"]) <=> (car = 0 - 1)
            /\ car >= 0 => lastStep.result.car.s = start_menu.cars[car + 1]

\* ENTER after the list shrank from three levels, drawn as three rows, to one
C15_Witness ==
    /\ EnterPressed
    /\ Len(start_menu.level_rects) = 3
    /\ Cardinality(ListedLevels) = 1
    /\ start_menu.selected_level = 0
    /\ lastStep.result.level.t = "str"

-----------------------------------------------------------------------------
(* Claims about the main loop (SpecLoop).                                  *)

\* C11: while the start menu is shown, main() answers an Escape key press by
\* making the main menu the current menu, and hands UP, DOWN, LEFT, RIGHT and
\* ENTER key presses to the start menu's handler
C11_EscapeGoesBack ==
    (lastStep.op = "event" /\ lastStep.menu = "start_menu"
        /\ lastStep.event.type = "KEYDOWN") =>
        /\ lastStep.event.key = "K_ESCAPE" => current_menu = "main"
        /\ lastStep.event.key \in {"K_UP", "K_DOWN", "K_LEFT", "K_RIGHT", "K_RETURN"} =>
              lastStep.handler = "start_menu"

\* C12: a QUIT event clears running, whatever the menu; running is never set
\* again and the frame rendered next is the last; the loop is left only after
\* a QUIT event, by the Exit Game button or by the Ctrl+Shift+C chord
C12_EndsOnlyByQuitOrExit ==
    [][/\ (lastStep'.op = "event" /\ lastStep'.event.type = "QUIT") => ~running'
       /\ ~running => ~running'
       /\ (~running /\ lastStep'.op = "render") => pc' = "done"
       /\ (running /\ ~running') => (lastStep'.op = "event" /\ lastStep'.event.type = "QUIT")
       /\ (pc = "frame" /\ pc' = "done") => (~running /\ lastStep'.op = "render")
       /\ (pc = "frame" /\ pc' = "exit") =>
             \/ /\ lastStep'.event = [type |-> "KEYDOWN", key |-> "K_c", button |-> 0]
                /\ lastStep'.raised = "Force crash triggered by Ctrl+Shift+C"
             \/ /\ lastStep'.event = [type |-> "MOUSEBUTTONDOWN", key |-> "none", button |-> 1]
                /\ lastStep'.menu = "main"
                /\ lastStep'.raised = "Exit Game button pressed"
       /\ pc \in {"done", "exit"} => pc' = pc]_vars

\* the loop has ended after a QUIT event that came while a placeholder screen
\* was shown and the frame that followed it
C12_Witness ==
    /\ pc = "done" /\ ~running
    /\ lastStep.op = "render" /\ lastStep.menu = "Credits"

\* C16: the current menu is "main", "start_menu" or the text of the
\* Multiplayer, Options or Credits button; once it is one of those three no
\* event changes it, every frame shows the placeholder screen and touches no
\* menu object, and the loop is left only after a QUIT event or by the
\* Ctrl+Shift+C chord
C16_PlaceholderAbsorbing ==
    /\ [](current_menu \in {"main", "start_menu", "Multiplayer", "Options", "Credits"})
    /\ [][current_menu \notin {"main", "start_menu"} =>
             /\ current_menu' = current_menu
             /\ lastStep'.op = "render" =>
                   /\ lastStep'.screen \in {"Settings", "Map Selection", "Car Selection",
                                            "Unknown Menu"}
                   /\ buttons' = buttons /\ start_menu' = start_menu
             /\ pc' = "done" => ~running
             /\ pc' = "exit" => lastStep'.raised = "Force crash triggered by Ctrl+Shift+C"
             /\ pc' \in {"frame", "done", "exit"}]_vars

\* a click on the place of the Start button while the Options placeholder is
\* shown, after a frame of it was rendered: the menu is still Options
C16_Witness ==
    /\ current_menu = "Options" /\ pc = "frame"
    /\ lastStep.op = "event" /\ lastStep.menu = "Options"
    /\ lastStep.event = [type |-> "MOUSEBUTTONDOWN", key |-> "none", button |-> 1]
    /\ lastStep.handler = "none"

-----------------------------------------------------------------------------
(* Claims about the Player (SpecPlayer).                                   *)

\* the calls of the current uninterrupted turn: those after the last call
\* with is_turning false
CurrentTurn ==
    LET stops == {k \in 1..Len(turn_calls) : ~turn_calls[k].is_turning}
        lastStop == IF stops = {} THEN 0 ELSE CHOOSE k \in stops : \A j \in stops : j <= k
    IN  (lastStop + 1)..Len(turn_calls)

\* C17: turning holds exactly when turn_start_time is set, which is during a
\* turn, and then is the time of the turn's first call; the bug flag holds only
\* while turning and after a call more than 5 seconds into the turn; a call
\* with is_turning false clears all three
C17_TurningInvariants ==
    LET begun == turn_calls[CHOOSE k \in CurrentTurn : \A j \in CurrentTurn : k <= j].time
    IN  /\ player.turning <=> (player.turn_start_time # [t |-> "none"])
        /\ player.turning <=> (CurrentTurn # {})
        /\ player.turning => player.turn_start_time = [t |-> "float", v |-> begun]
        /\ player.speed_gain_bug_active =>
              /\ player.turning
              /\ \E k \in CurrentTurn : turn_calls[k].time - begun > 5
        /\ (turn_calls # <<>> /\ ~turn_calls[Len(turn_calls)].is_turning) =>
              /\ ~player.turning
              /\ player.turn_start_time = [t |-> "none"]
              /\ ~player.speed_gain_bug_active

\* a turn whose call 6 seconds in set the flag, a stop, and a second turn
\* whose call 5 seconds in leaves the flag clear
C17_Witness ==
    /\ Len(turn_calls) = 5
    /\ turn_calls[1].is_turning /\ turn_calls[2].is_turning
    /\ turn_calls[2].time - turn_calls[1].time = 6
    /\ ~turn_calls[3].is_turning
    /\ turn_calls[4].is_turning /\ turn_calls[5].is_turning
    /\ turn_calls[5].time - turn_calls[4].time = 5
    /\ player.turning /\ ~player.speed_gain_bug_active
    /\ player.turn_start_time = [t |-> "float", v |-> turn_calls[4].time]

====
